---------------------------- MODULE Spec2Model ----------------------------
(***************************************************************************)
(* Model of the HeadHunter vacancy analyzer (src/hh_api.py) and of the     *)
(* /hh_api web route that drives it (src/app.py).                          *)
(*                                                                         *)
(* Five specifications share the variables:                                *)
(*   SpecStats  the aggregation of one listing document (pure arithmetic), *)
(*   Spec       requests served one after another by the shared analyzer   *)
(*              with its two TTL caches, the network and the database,     *)
(*   SpecTtl    Spec, with the calls of one parameter tuple remembered,    *)
(*   SpecDb     Spec, with the fetches and the committed saves counted,    *)
(*   SpecConc   two request threads interleaving inside analyze_vacancies. *)
(*                                                                         *)
(* Conventions.  A Python str is a TLA+ string.  A snippet is the sequence *)
(* of whitespace-separated pieces that str.split() yields.  Money and      *)
(* percentages that the code rounds to two decimals are integers counted   *)
(* in hundredths.  A cache is the sequence of its entries in               *)
(* least-recently-used-first order; an entry carries the ticks of the      *)
(* timer it has left to live, expires - timer().                           *)
(***************************************************************************)
EXTENDS Integers, Sequences, FiniteSets, TLC

VARIABLES
    doc,        \* SpecStats: the listing document under analysis (data['items'])
    result,     \* SpecStats: the AnalysisResult computed from doc, or NoResult
    respCache,  \* the TTLCache of the @cached decorator of get_vacancies
    cache,      \* HHVacancyAnalyzer.cache, the result cache
    fetches,    \* outbound fetches that returned a document
    saves,      \* save_to_db runs that reached conn.commit()
    saveFailed, \* some save_to_db run raised
    ev,         \* what the last request did and answered
    lastOk,     \* the last calls of analyze_vacancies with the tuple Watch
    pc,         \* SpecConc: each thread's position in analyze_vacancies
    tp,         \* SpecConc: each thread's parameter tuple
    tdata,      \* SpecConc: each thread's local variable data
    tdid        \* SpecConc: what each thread's current call has done itself

vars == <<doc, result, respCache, cache, fetches, saves, saveFailed, ev,
          lastOk, pc, tp, tdata, tdid>>

-----------------------------------------------------------------------------
(* Bounds and program constants *)

\* top_skills and top_companies keep ten entries
TopN == 10
\* listings of a salary document
MaxSal == 4
\* listings appended to the base of a requirement document
MaxVar == 2

-----------------------------------------------------------------------------
(* Generic helpers *)

Min(a, b) == IF a <= b THEN a ELSE b

Range(s) == {s[i] : i \in 1..Len(s)}

Take(s, n) == SubSeq(s, 1, Min(n, Len(s)))

RECURSIVE SumSeq(_)
SumSeq(s) == IF s = <<>> THEN 0 ELSE s[1] + SumSeq(Tail(s))

RECURSIVE SeqsUpTo(_, _)
SeqsUpTo(S, n) ==
    IF n = 0 THEN {<<>>}
    ELSE LET shorter == SeqsUpTo(S, n - 1)
         IN  shorter \cup {Append(s, x) : s \in {t \in shorter : Len(t) = n - 1}, x \in S}

\* round(num / den, 0) as Python rounds: to nearest, ties to even
RoundHalfEven(num, den) ==
    LET q == num \div den
        r == num % den
    IN  IF 2 * r < den THEN q
        ELSE IF 2 * r > den THEN q + 1
        ELSE IF q % 2 = 0 THEN q ELSE q + 1

-----------------------------------------------------------------------------
(* Listings.  A listing keeps the fields the aggregation reads: the        *)
(* employer label, the salary object and the requirement snippet.          *)

\* vacancy['salary'] is null
NoSalary == [present |-> FALSE, hasFrom |-> FALSE, from |-> 0]
\* vacancy['salary'] is an object whose 'from' is null
SalaryFromNone == [present |-> TRUE, hasFrom |-> FALSE, from |-> 0]
\* vacancy['salary'] is an object whose 'from' is the number n
SalaryFrom(n) == [present |-> TRUE, hasFrom |-> TRUE, from |-> n]

Listing(e, s, d) == [employer |-> e, salary |-> s, snippet |-> d]

\* str.lower() on the pieces the documents use
Lower(w) ==
    CASE w = "Python" -> "python"
      [] w = "Kafka"  -> "kafka"
      [] w = "SQL"    -> "sql"
      [] OTHER        -> w

\* parse_requirements: the pieces longer than two characters, lower-cased,
\* duplicates and order kept
RECURSIVE parse_requirements(_)
parse_requirements(description) ==
    IF description = <<>> THEN <<>>
    ELSE LET req  == Head(description)
             rest == parse_requirements(Tail(description))
         IN  IF Len(req) > 2 THEN <<Lower(req)>> \o rest ELSE rest

\* collections.Counter over a sequence: <<label, count>> pairs in the order
\* the labels were first met
RECURSIVE CounterAdd(_, _)
CounterAdd(c, x) ==
    IF c = <<>> THEN << <<x, 1>> >>
    ELSE IF c[1][1] = x THEN << <<x, c[1][2] + 1>> >> \o Tail(c)
    ELSE <<c[1]>> \o CounterAdd(Tail(c), x)

RECURSIVE Counter(_)
Counter(s) ==
    IF s = <<>> THEN <<>>
    ELSE CounterAdd(Counter(SubSeq(s, 1, Len(s) - 1)), s[Len(s)])

\* an insertion that puts item before the entries of equal count
RECURSIVE InsertDesc_Unstable(_, _)
InsertDesc_Unstable(sorted, item) ==
    IF sorted = <<>> THEN <<item>>
    ELSE IF sorted[1][2] > item[2]
         THEN <<sorted[1]>> \o InsertDesc_Unstable(Tail(sorted), item)
    ELSE <<item>> \o sorted

\* the place of item in a list already sorted by descending count: behind
\* every entry whose count is not smaller (stability)
RECURSIVE InsertDesc(_, _)
InsertDesc(sorted, item) ==
    IF sorted = <<>> THEN <<item>>
    ELSE IF sorted[1][2] >= item[2] THEN <<sorted[1]>> \o InsertDesc(Tail(sorted), item)
    ELSE <<item>> \o sorted

\* sorted(items, key=lambda x: x[1], reverse=True), a stable sort
RECURSIVE SortedDesc(_)
SortedDesc(items) ==
    IF items = <<>> THEN <<>>
    ELSE InsertDesc(SortedDesc(SubSeq(items, 1, Len(items) - 1)), items[Len(items)])

\* Counter.most_common(n) = heapq.nlargest(n, items, key=count)
most_common(c, n) == Take(SortedDesc(c), n)

\* sorted(data) ascending
RECURSIVE InsertAsc(_, _)
InsertAsc(sorted, x) ==
    IF sorted = <<>> THEN <<x>>
    ELSE IF sorted[1] <= x THEN <<sorted[1]>> \o InsertAsc(Tail(sorted), x)
    ELSE <<x>> \o sorted

RECURSIVE SortedAsc(_)
SortedAsc(s) == IF s = <<>> THEN <<>> ELSE InsertAsc(SortedAsc(Tail(s)), Head(s))

\* round(statistics.median(data), 2) of a non-empty sample, in hundredths
median100(data) ==
    LET sd == SortedAsc(data)
        n  == Len(sd)
        i  == n \div 2
    IN  IF n % 2 = 1 THEN 100 * sd[i + 1]
        ELSE 50 * (sd[i] + sd[i + 1])

\* the truth value of v.get('salary') and v['salary'].get('from'):
\* null and 0 are both false
SalaryTruthy(v) == v.salary.present /\ v.salary.hasFrom /\ v.salary.from # 0

\* salaries = [v['salary']['from'] for v in vacancies if ...]
RECURSIVE Salaries(_)
Salaries(vacancies) ==
    IF vacancies = <<>> THEN <<>>
    ELSE LET v == Head(vacancies)
         IN  (IF SalaryTruthy(v) THEN <<v.salary.from>> ELSE <<>>) \o Salaries(Tail(vacancies))

\* all_requirements: the tokens of every non-empty snippet, concatenated
RECURSIVE AllRequirements(_)
AllRequirements(vacancies) ==
    IF vacancies = <<>> THEN <<>>
    ELSE LET description == Head(vacancies).snippet
         IN  (IF description # <<>> THEN parse_requirements(description) ELSE <<>>)
             \o AllRequirements(Tail(vacancies))

\* req_percentage rounded as in the result: count / total * 100, in hundredths
Percentage(req_count, total_vacancies) ==
    [i \in 1..Len(req_count) |->
        <<req_count[i][1], RoundHalfEven(req_count[i][2] * 10000, total_vacancies)>>]

NoResult == [query |-> "-", total_vacancies |-> -1]

\* lines 87-121 of analyze_vacancies: the AnalysisResult of a listing document
Analyze(query, vacancies) ==
    LET total_vacancies == Len(vacancies)
        salaries        == Salaries(vacancies)
        req_count       == Counter(AllRequirements(vacancies))
        sorted_req      == SortedDesc(req_count)
        companies       == Counter([i \in 1..Len(vacancies) |-> vacancies[i].employer])
    IN  [query               |-> query,
         total_vacancies     |-> total_vacancies,
         average_salary      |-> IF salaries # <<>>
                                 THEN RoundHalfEven(100 * SumSeq(salaries), Len(salaries))
                                 ELSE 0,
         median_salary       |-> IF salaries # <<>> THEN median100(salaries) ELSE 0,
         count               |-> sorted_req,
         percentage          |-> Percentage(req_count, total_vacancies),
         top_skills          |-> Take(sorted_req, TopN),
         unique_requirements |-> Len(req_count),
         top_companies       |-> most_common(companies, TopN)]

-----------------------------------------------------------------------------
(* The listing documents SpecStats draws from *)

BaseWords == <<"python", "sql", "java", "linux", "docker", "git", "django",
               "flask", "redis", "kafka">>
BaseEmployers == <<"e01", "e02", "e03", "e04", "e05", "e06", "e07", "e08",
                   "e09", "e10">>

\* n listings, each with its own employer and its own one-word snippet
BaseDoc(n) == [i \in 1..n |-> Listing(BaseEmployers[i], NoSalary, <<BaseWords[i]>>)]

VarSnippets == {<<>>, <<"rust">>, <<"Python", "SQL", "Python">>, <<"Kafka", "go", "Kafka">>}
VarListings == {Listing(e, NoSalary, d) : e \in {"e01", "e11"}, d \in VarSnippets}

\* documents that vary the snippets and employers, with up to eleven
\* distinct tokens and eleven distinct employers
ReqDocs == {BaseDoc(n) \o v : n \in {0, Len(BaseWords)}, v \in SeqsUpTo(VarListings, MaxVar)}

SalaryValues == {NoSalary, SalaryFromNone, SalaryFrom(0), SalaryFrom(100),
                 SalaryFrom(200), SalaryFrom(250)}

\* documents that vary the salary objects
SalDocs == SeqsUpTo({Listing("e01", s, <<>>) : s \in SalaryValues}, MaxSal)

Docs == ReqDocs \cup SalDocs

-----------------------------------------------------------------------------
(* cachetools.TTLCache, as HHVacancyAnalyzer builds it twice.  An entry    *)
(* lives while timer() < expires, that is while left > 0; a dead entry     *)
(* stays in the cache.  A read of a live key makes it the most             *)
(* recently used; a store first drops every expired entry, then, for a new *)
(* key, the least recently used entries until there is room.  The field by *)
(* is not in the program: it remembers the parameter tuple whose call      *)
(* computed the value.                                                     *)

\* TTLCache(maxsize=100, ...): the entries a cache holds, scaled down from
\* 100 to 2
maxsize == 2
\* TTLCache(..., ttl=3600): the lifetime of an entry, scaled down from 3600
\* seconds to 2 ticks of the timer
ttl == 2
\* save_to_db runs and successful fetches of one behaviour
MaxSaves == 4

\* link.expires = time + self.__ttl
Entry(k, v, b) == [key |-> k, val |-> v, left |-> ttl, by |-> b]

Index(c, k) == IF \E i \in 1..Len(c) : c[i].key = k
               THEN CHOOSE i \in 1..Len(c) : c[i].key = k
               ELSE 0

\* TTLCache.__contains__: the key is there and has not expired; the order
\* of use is left alone
Contains(c, k) == \E i \in 1..Len(c) : c[i].key = k /\ c[i].left > 0

Without(c, k) == SelectSeq(c, LAMBDA e : e.key # k)

\* TTLCache.__getitem__ of a live key: the key becomes the most recently used
Touch(c, k) == Without(c, k) \o <<c[Index(c, k)]>>

\* TTLCache.expire(time)
Expire(c) == SelectSeq(c, LAMBDA e : e.left > 0)

\* the cache one tick of the timer later
Aged(c) == [i \in 1..Len(c) |-> [c[i] EXCEPT !.left = IF @ > 0 THEN @ - 1 ELSE 0]]

\* an eviction that keeps one entry fewer than maxsize
RECURSIVE MakeRoom_OffByOne(_)
MakeRoom_OffByOne(c) == IF Len(c) >= maxsize - 1 THEN MakeRoom_OffByOne(Tail(c)) ELSE c

\* Cache.__setitem__: popitem() until the new entry fits, least recently
\* used first
RECURSIVE MakeRoom(_)
MakeRoom(c) == IF Len(c) >= maxsize THEN MakeRoom(Tail(c)) ELSE c

\* TTLCache.__setitem__: cache[k] = v
SetItem(c, k, v, b) ==
    LET live == Expire(c)
        room == IF Index(live, k) = 0 THEN MakeRoom(live) ELSE live
    IN  Without(room, k) \o <<Entry(k, v, b)>>

-----------------------------------------------------------------------------
(* Requests *)

Params(q, a) == [query |-> q, area |-> a, experience |-> "", employment |-> "", salary |-> ""]

\* the form inputs the requests draw from
ParamSet == {Params(q, a) : q \in {"dev", "dev_ops"}, a \in {"1", "ops_1"}}

\* cache_key = f"{query}_{area}_{experience}_{employment}_{salary}"
cache_key(p) ==
    p.query \o "_" \o p.area \o "_" \o p.experience \o "_" \o p.employment \o "_" \o p.salary

\* what get_vacancies returns: None, or the JSON body with its items
NoneData == [ok |-> FALSE, items |-> <<>>]
Json(items) == [ok |-> TRUE, items |-> items]

\* what analyze_vacancies returns when it returns None
None == NoResult

\* the bodies the listings API answers with
NetDocs == {Json(<<Listing("e01", SalaryFrom(100), <<"Python", "SQL">>),
                   Listing("e02", NoSalary, <<>>)>>)}

\* the outcomes of requests.get + raise_for_status: a body, or a
\* RequestException
NetOutcomes == NetDocs \cup {NoneData}

\* get_vacancies behind @cached: a live entry of the response cache is
\* returned, otherwise the network is asked and whatever the function
\* returns, None included, is stored
get_vacancies(rc, p, net) ==
    IF Contains(rc, p)
    THEN [data |-> rc[Index(rc, p)].val, respCache |-> Touch(rc, p), asked |-> FALSE]
    ELSE [data |-> net, respCache |-> SetItem(rc, p, net, p), asked |-> TRUE]

\* analyze_vacancies(p) on the caches rc (response) and c (result), with
\* the network answering net and save_to_db raising unless dbok
analyze_vacancies(rc, c, p, net, dbok) ==
    LET k == cache_key(p)
    IN  IF Contains(c, k)
        THEN [outcome |-> "hit", ret |-> c[Index(c, k)].val, by |-> c[Index(c, k)].by,
              raised |-> FALSE, respCache |-> rc, cache |-> Touch(c, k),
              asked |-> FALSE, fetched |-> FALSE, saved |-> FALSE]
        ELSE LET gv == get_vacancies(rc, p, net)
             IN  IF ~gv.data.ok
                 THEN [outcome |-> "no_data", ret |-> None, by |-> p,
                       raised |-> FALSE, respCache |-> gv.respCache, cache |-> c,
                       asked |-> gv.asked, fetched |-> FALSE, saved |-> FALSE]
                 ELSE IF ~dbok
                 THEN [outcome |-> "save_raised", ret |-> None, by |-> p,
                       raised |-> TRUE, respCache |-> gv.respCache, cache |-> c,
                       asked |-> gv.asked, fetched |-> gv.asked, saved |-> FALSE]
                 ELSE LET res == Analyze(p.query, gv.data.items)
                      IN  [outcome |-> "computed", ret |-> res, by |-> p,
                           raised |-> FALSE,
                           respCache |-> gv.respCache,
                           cache |-> SetItem(c, k, res, p),
                           asked |-> gv.asked, fetched |-> gv.asked, saved |-> TRUE]

-----------------------------------------------------------------------------
(* The /hh_api route *)

\* lines 50-54: the result is rounded and cut in place; the object is the
\* one the result cache holds
Format(results) ==
    [results EXCEPT !.average_salary = RoundHalfEven(@, 1),
                    !.median_salary  = RoundHalfEven(@, 1),
                    !.top_skills     = Take(@, TopN)]

\* the route without its except clause: the exception leaves the route
hh_api_response_NoTry(av) ==
    IF av.raised \/ av.ret = None
    THEN [status |-> 500, page |-> None, escaped |-> TRUE]
    ELSE [status |-> 200, page |-> Format(av.ret), escaped |-> FALSE]

\* lines 45-59: the try block around analyze_vacancies, the subscripting of
\* its result and render_template; every Exception ends in the 400 answer
hh_api_response(av) ==
    LET TypeError == av.ret = None      \* results['average_salary'] on None
    IN  IF av.raised \/ TypeError
        THEN [status |-> 400, page |-> None, escaped |-> FALSE]
        ELSE [status |-> 200, page |-> Format(av.ret), escaped |-> FALSE]

\* the result cache after the route wrote the formatted fields back into
\* the object it was handed
Aliased(c, k, av) ==
    IF av.raised \/ av.ret = None THEN c
    ELSE [i \in 1..Len(c) |-> IF c[i].key = k THEN [c[i] EXCEPT !.val = Format(@)] ELSE c[i]]

NoAnchor == [cset |-> FALSE, cres |-> None, cage |-> 0, others |-> {}]

EvNone == [op |-> "none", p |-> Params("-", "-"), outcome |-> "-",
           ret |-> None, by |-> Params("-", "-"), raised |-> FALSE, asked |-> FALSE,
           fetched |-> FALSE, saved |-> FALSE, status |-> 0, page |-> None,
           escaped |-> FALSE]

\* the parameter tuple whose calls lastOk follows
Watch == Params("dev_ops", "1")

\* what is remembered of the calls with the tuple Watch: the result of
\* its last call that computed one (cres), the ticks since (cage), and the
\* other result-cache keys stored or read since (others)
Remember(a, p, av) ==
    LET k    == cache_key(p)
        used == av.outcome \in {"hit", "computed"}
    IN  IF p = Watch /\ av.outcome = "computed"
        THEN [cset |-> TRUE, cres |-> av.ret, cage |-> 0, others |-> {}]
        ELSE IF used /\ a.cset /\ k # cache_key(Watch)
        THEN [a EXCEPT !.others = @ \cup {k}]
        ELSE a

-----------------------------------------------------------------------------
(* Spec: requests served one after another by the shared analyzer *)

\* the request threads of SpecConc
Threads == {1, 2}

NothingDone == [asked |-> FALSE, saved |-> FALSE]

\* no document under analysis, no request thread inside analyze_vacancies
Idle == /\ doc = <<>>
        /\ result = NoResult
        /\ pc = [t \in Threads |-> "idle"]
        /\ tp = [t \in Threads |-> Watch]
        /\ tdata = [t \in Threads |-> NoneData]
        /\ tdid = [t \in Threads |-> NothingDone]

Init ==
    /\ Idle
    /\ respCache = <<>>
    /\ cache = <<>>
    /\ fetches = 0
    /\ saves = 0
    /\ saveFailed = FALSE
    /\ ev = EvNone
    /\ lastOk = NoAnchor

\* one POST to /hh_api with the form fields p: the caches and the answer
Serve(p, av) ==
    LET resp == hh_api_response(av)
    IN  /\ respCache' = av.respCache
        /\ cache' = Aliased(av.cache, cache_key(p), av)
        /\ ev' = [op |-> "call", p |-> p, outcome |-> av.outcome,
                  ret |-> av.ret, by |-> av.by, raised |-> av.raised,
                  asked |-> av.asked, fetched |-> av.fetched, saved |-> av.saved,
                  status |-> resp.status, page |-> resp.page,
                  escaped |-> resp.escaped]

hh_api(p, net, dbok) ==
    LET av == analyze_vacancies(respCache, cache, p, net, dbok)
    IN  /\ Serve(p, av)
        /\ UNCHANGED <<doc, result, fetches, saves, saveFailed, lastOk,
                       pc, tp, tdata, tdid>>

\* the ticks since a remembered call, counted up to ttl
Older(n) == IF n < ttl THEN n + 1 ELSE ttl

\* the timer advances by one tick between two requests
Tick ==
    /\ respCache' = Aged(respCache)
    /\ cache' = Aged(cache)
    /\ lastOk' = IF lastOk.cset THEN [lastOk EXCEPT !.cage = Older(@)] ELSE lastOk
    /\ ev' = [EvNone EXCEPT !.op = "tick"]
    /\ UNCHANGED <<doc, result, fetches, saves, saveFailed, pc, tp, tdata, tdid>>

Next ==
    \/ \E p \in ParamSet, net \in NetOutcomes, dbok \in BOOLEAN :
          hh_api(p, net, dbok)
    \/ Tick

Spec == Init /\ [][Next]_vars

-----------------------------------------------------------------------------
(* SpecTtl: the sequential requests, with the calls of the tuple Watch     *)
(* remembered                                                              *)

hh_api_watched(p, net, dbok) ==
    LET av == analyze_vacancies(respCache, cache, p, net, dbok)
    IN  /\ Serve(p, av)
        /\ lastOk' = Remember(lastOk, p, av)
        /\ UNCHANGED <<doc, result, fetches, saves, saveFailed,
                       pc, tp, tdata, tdid>>

NextTtl ==
    \/ \E p \in ParamSet, net \in NetOutcomes, dbok \in BOOLEAN :
          hh_api_watched(p, net, dbok)
    \/ Tick

SpecTtl == Init /\ [][NextTtl]_vars

-----------------------------------------------------------------------------
(* Claims about the sequential requests *)

\* the last step was a request whose outbound fetch was issued and failed
FetchFailed == ev.op = "call" /\ ev.asked /\ ev.outcome = "no_data"

\* C1: after a request whose outbound fetch failed, analyze_vacancies has
\* returned None and neither cache holds an entry for the request's
\* parameter tuple; the response cache holds successful responses only.
C1_NoCacheOnFailure ==
    /\ FetchFailed =>
          /\ ev.ret = None
          /\ ~Contains(respCache, ev.p)
          /\ ~Contains(cache, cache_key(ev.p))
    /\ \A i \in 1..Len(respCache) : respCache[i].val.ok

\* C2 as claimed: a call with the tuple Watch made less than ttl after a
\* call with Watch that succeeded (here: fetched, computed and returned a
\* result) returns that same result, asks the network nothing and computes
\* nothing.
C2_AsClaimed ==
    [][(/\ ev'.op = "call"
        /\ ev'.p = Watch
        /\ lastOk.cset
        /\ lastOk.cage < ttl)
       => (/\ ev'.outcome = "hit"
           /\ ev'.ret = lastOk.cres
           /\ ~ev'.asked)]_vars

\* C2 as amended: a call with the tuple Watch made less than ttl after a
\* call with Watch that computed and cached its result, with fewer than
\* maxsize other result-cache keys stored or read in between, returns that
\* same result, asks the network nothing and computes nothing.
C2_CachedWhileRetained ==
    [][(/\ ev'.op = "call"
        /\ ev'.p = Watch
        /\ lastOk.cset
        /\ lastOk.cage < ttl
        /\ Cardinality(lastOk.others) < maxsize)
       => (/\ ev'.outcome = "hit"
           /\ ev'.ret = lastOk.cres
           /\ ~ev'.asked)]_vars

\* C2 witness: a later call with Watch was answered from the result cache
\* after another key had been used and time had passed
C2_Witness ==
    /\ ev.op = "call"
    /\ ev.p = Watch
    /\ ev.outcome = "hit"
    /\ lastOk.cset
    /\ lastOk.cres = ev.ret
    /\ lastOk.others # {}
    /\ lastOk.cage > 0

\* C3: a request that returns a result returns one that a call with the
\* same parameter tuple computed.
C3_KeyedByExactTuple ==
    (ev.op = "call" /\ ev.ret # None) => ev.by = ev.p

\* C5: a request whose outbound fetch succeeded returns the computed
\* result and leaves it in the result cache, whether or not save_to_db
\* raised.
C5_PersistenceDoesNotGate ==
    (ev.op = "call" /\ ev.fetched) =>
        /\ ~ev.raised
        /\ ev.ret # None
        /\ Contains(cache, cache_key(ev.p))
        /\ cache[Index(cache, cache_key(ev.p))].val = ev.ret

\* C9: every POST to /hh_api is answered either with the page rendered
\* from a result that is not None, or with the error answer of status 400;
\* a request in which analyze_vacancies returned None gets the error
\* answer, and no exception leaves the route.
C9_TwoOutcomes ==
    ev.op = "call" =>
        /\ ~ev.escaped
        /\ \/ ev.status = 200 /\ ev.ret # None /\ ev.page = Format(ev.ret)
           \/ ev.status = 400 /\ ev.page = None
        /\ (ev.ret = None => ev.status = 400)

\* C9 witness: a request whose fetch failed was answered with status 400
C9_Witness == FetchFailed /\ ev.ret = None /\ ev.status = 400 /\ ~ev.escaped

-----------------------------------------------------------------------------
(* SpecDb: the sequential requests, with the fetches and the committed     *)
(* save_to_db runs counted                                                 *)

hh_api_counted(p, net, dbok) ==
    /\ fetches < MaxSaves
    /\ saves < MaxSaves
    /\ LET av == analyze_vacancies(respCache, cache, p, net, dbok)
       IN  /\ Serve(p, av)
           /\ fetches' = IF av.fetched THEN fetches + 1 ELSE fetches
           /\ saves' = IF av.saved THEN saves + 1 ELSE saves
           /\ saveFailed' = (saveFailed \/ av.raised)
    /\ UNCHANGED <<doc, result, lastOk, pc, tp, tdata, tdid>>

NextDb ==
    \/ \E p \in ParamSet, net \in NetOutcomes, dbok \in BOOLEAN :
          hh_api_counted(p, net, dbok)
    \/ Tick

SpecDb == Init /\ [][NextDb]_vars

\* C10: as long as no save_to_db run has raised, the committed save_to_db
\* runs are as many as the outbound fetches that returned a document: every
\* fetched document has been written to the listings table exactly once.
C10_SavedOncePerFetch == ~saveFailed => saves = fetches

-----------------------------------------------------------------------------
(* SpecConc: two request threads inside analyze_vacancies on the shared    *)
(* analyzer, within one tick of the timer.  Each step is one operation on  *)
(* a cache, the network or the database; nothing in the code orders the    *)
(* steps of different threads.                                             *)

\* the form inputs of the concurrent requests
ConcParams == {Watch, Params("dev", "1")}

\* line 75: a request enters analyze_vacancies
Request(t, p) ==
    /\ pc[t] = "idle"
    /\ pc' = [pc EXCEPT ![t] = "check"]
    /\ tp' = [tp EXCEPT ![t] = p]
    /\ tdata' = [tdata EXCEPT ![t] = NoneData]
    /\ tdid' = [tdid EXCEPT ![t] = NothingDone]
    /\ UNCHANGED <<doc, result, respCache, cache, fetches, saves, saveFailed,
                   ev, lastOk>>

\* line 76: if cache_key in self.cache
CheckCache(t) ==
    /\ pc[t] = "check"
    /\ pc' = [pc EXCEPT ![t] = IF Contains(cache, cache_key(tp[t]))
                               THEN "read" ELSE "get"]
    /\ UNCHANGED <<doc, result, respCache, cache, fetches, saves, saveFailed,
                   ev, lastOk, tp, tdata, tdid>>

\* line 77: return self.cache[cache_key]; a KeyError if the entry has gone
ReadCache(t) ==
    /\ pc[t] = "read"
    /\ pc' = [pc EXCEPT ![t] = "idle"]
    /\ cache' = IF Contains(cache, cache_key(tp[t]))
                THEN Touch(cache, cache_key(tp[t])) ELSE cache
    /\ UNCHANGED <<doc, result, respCache, fetches, saves, saveFailed,
                   ev, lastOk, tp, tdata, tdid>>

\* line 79, the lookup of the @cached wrapper; lines 80-81 on a cached None
Lookup(t) ==
    /\ pc[t] = "get"
    /\ IF Contains(respCache, tp[t])
       THEN LET data == respCache[Index(respCache, tp[t])].val
            IN  /\ respCache' = Touch(respCache, tp[t])
                /\ tdata' = [tdata EXCEPT ![t] = data]
                /\ pc' = [pc EXCEPT ![t] = IF data.ok THEN "save" ELSE "idle"]
       ELSE /\ pc' = [pc EXCEPT ![t] = "fetch"]
            /\ UNCHANGED <<respCache, tdata>>
    /\ UNCHANGED <<doc, result, cache, fetches, saves, saveFailed,
                   ev, lastOk, tp, tdid>>

\* lines 30-36 and the store of the @cached wrapper; lines 80-81
Fetch(t, net) ==
    /\ pc[t] = "fetch"
    /\ respCache' = SetItem(respCache, tp[t], net, tp[t])
    /\ tdata' = [tdata EXCEPT ![t] = net]
    /\ tdid' = [tdid EXCEPT ![t].asked = TRUE]
    /\ pc' = [pc EXCEPT ![t] = IF net.ok THEN "save" ELSE "idle"]
    /\ UNCHANGED <<doc, result, cache, fetches, saves, saveFailed,
                   ev, lastOk, tp>>

\* line 85: save_to_db commits, or raises out of analyze_vacancies
Save(t, dbok) ==
    /\ pc[t] = "save"
    /\ pc' = [pc EXCEPT ![t] = IF dbok THEN "store" ELSE "idle"]
    /\ tdid' = [tdid EXCEPT ![t].saved = dbok]
    /\ UNCHANGED <<doc, result, respCache, cache, fetches, saves, saveFailed,
                   ev, lastOk, tp, tdata>>

\* lines 87-123: the result is computed, stored and returned
Store(t) ==
    /\ pc[t] = "store"
    /\ cache' = SetItem(cache, cache_key(tp[t]),
                        Analyze(tp[t].query, tdata[t].items), tp[t])
    /\ pc' = [pc EXCEPT ![t] = "idle"]
    /\ UNCHANGED <<doc, result, respCache, fetches, saves, saveFailed,
                   ev, lastOk, tp, tdata, tdid>>

NextConc ==
    \E t \in Threads :
        \/ \E p \in ConcParams : Request(t, p)
        \/ CheckCache(t)
        \/ ReadCache(t)
        \/ Lookup(t)
        \/ \E net \in NetOutcomes : Fetch(t, net)
        \/ \E dbok \in BOOLEAN : Save(t, dbok)
        \/ Store(t)

SpecConc == Init /\ [][NextConc]_vars

\* C4: two requests with identical parameters that are inside
\* analyze_vacancies at the same time never both miss the caches, each
\* asking the network and each writing the listings to the database.
C4_NoDoubleMiss ==
    \A t1 \in Threads, t2 \in Threads :
        (t1 # t2 /\ pc[t1] # "idle" /\ pc[t2] # "idle" /\ tp[t1] = tp[t2])
            => ~(tdid[t1].asked /\ tdid[t1].saved /\ tdid[t2].asked /\ tdid[t2].saved)

-----------------------------------------------------------------------------
(* SpecStats: the aggregation of one listing document *)

InitStats ==
    /\ doc \in Docs
    /\ result = NoResult
    /\ pc = [t \in Threads |-> "idle"]
    /\ tp = [t \in Threads |-> Watch]
    /\ tdata = [t \in Threads |-> NoneData]
    /\ tdid = [t \in Threads |-> NothingDone]
    /\ respCache = <<>>
    /\ cache = <<>>
    /\ fetches = 0
    /\ saves = 0
    /\ saveFailed = FALSE
    /\ ev = EvNone
    /\ lastOk = NoAnchor

\* lines 87-121 on the items of the document
Aggregate ==
    /\ result = NoResult
    /\ result' = Analyze("dev", doc)
    /\ UNCHANGED <<doc, respCache, cache, fetches, saves, saveFailed, ev,
                   lastOk, pc, tp, tdata, tdid>>

NextStats == Aggregate

SpecStats == InitStats /\ [][NextStats]_vars

-----------------------------------------------------------------------------
(* Claims about the aggregation.  They are stated over the document with   *)
(* counting by sets of positions, not with the operators that compute the  *)
(* result.                                                                 *)

Aggregated == result # NoResult

\* the positions of the listings whose snippet holds the token
ListingsWith(tok) == {i \in 1..Len(doc) : tok \in Range(parse_requirements(doc[i].snippet))}

\* how often x occurs in the sequence s, and where first
Occurrences(x, s) == Cardinality({i \in 1..Len(s) : s[i] = x})
FirstPos(x, s) == CHOOSE i \in 1..Len(s) : s[i] = x /\ \A j \in 1..(i - 1) : s[j] # x

\* entry a ranks before entry b: more occurrences, or as many and met earlier
RanksBefore(a, b, s) ==
    \/ Occurrences(a, s) > Occurrences(b, s)
    \/ Occurrences(a, s) = Occurrences(b, s) /\ FirstPos(a, s) < FirstPos(b, s)

\* r lists the n first of the ranking of the labels of s, with their counts
IsRankingPrefix(r, n, s) ==
    /\ Len(r) = n
    /\ \A i \in 1..Len(r) : r[i][1] \in Range(s) /\ r[i][2] = Occurrences(r[i][1], s)
    /\ \A i \in 1..Len(r), j \in 1..Len(r) : i < j => RanksBefore(r[i][1], r[j][1], s)
    /\ \A x \in Range(s) \ {r[i][1] : i \in 1..Len(r)} :
          \A i \in 1..Len(r) : RanksBefore(r[i][1], x, s)

Distinct(s) == Cardinality(Range(s))

EmployerLabels == [i \in 1..Len(doc) |-> doc[i].employer]

\* C6: the percentage reported for a token is the share of the listings
\* that contain the token, times 100, and lies between 0 and 100.
C6_PercentageOfListings ==
    Aggregated =>
        \A i \in 1..Len(result.percentage) :
            LET tok == result.percentage[i][1]
                pct == result.percentage[i][2]
            IN  /\ pct = RoundHalfEven(Cardinality(ListingsWith(tok)) * 10000, Len(doc))
                /\ 0 <= pct
                /\ pct <= 100 * 100

\* the lower bounds of the listings that carry one, in document order
RECURSIVE LowerBounds(_)
LowerBounds(vacancies) ==
    IF vacancies = <<>> THEN <<>>
    ELSE LET v == Head(vacancies)
         IN  (IF v.salary.present /\ v.salary.hasFrom THEN <<v.salary.from>> ELSE <<>>)
             \o LowerBounds(Tail(vacancies))

\* the k-th smallest value of the sample s
Kth(s, k) ==
    CHOOSE x \in Range(s) :
        /\ Cardinality({i \in 1..Len(s) : s[i] < x}) < k
        /\ Cardinality({i \in 1..Len(s) : s[i] <= x}) >= k

\* the median of the non-empty sample s, in hundredths
StandardMedian100(s) ==
    IF Len(s) % 2 = 1 THEN 100 * Kth(s, (Len(s) + 1) \div 2)
    ELSE 50 * (Kth(s, Len(s) \div 2) + Kth(s, Len(s) \div 2 + 1))

\* C7: the salary sample is the lower bounds of exactly the listings that
\* carry one; average_salary is its mean and median_salary its median (to
\* two decimals), both 0 for an empty sample; total_vacancies counts every
\* listing.
C7_SalaryStatistics ==
    Aggregated =>
        LET sample == LowerBounds(doc)
        IN  /\ result.total_vacancies = Len(doc)
            /\ result.average_salary =
                  IF sample = <<>> THEN 0
                  ELSE RoundHalfEven(100 * SumSeq(sample), Len(sample))
            /\ result.median_salary =
                  IF sample = <<>> THEN 0 ELSE StandardMedian100(sample)

\* C8: the requirement ranking lists every token with its count, higher
\* counts first and equal counts in the order the tokens were first met;
\* top_skills is its prefix of length min(10, distinct tokens), and
\* top_companies is the same prefix of the ranking of the employer labels.
C8_StableRankingAndPrefixes ==
    Aggregated =>
        LET tokens == AllRequirements(doc)
        IN  /\ IsRankingPrefix(result.count, Distinct(tokens), tokens)
            /\ IsRankingPrefix(result.top_skills, Min(TopN, Distinct(tokens)), tokens)
            /\ result.top_skills = SubSeq(result.count, 1, Len(result.top_skills))
            /\ IsRankingPrefix(result.top_companies, Min(TopN, Distinct(EmployerLabels)),
                               EmployerLabels)

\* C8 witness: more than ten distinct tokens and employers, some of equal
\* count, and both rankings led by a label that was not met first
C8_Witness ==
    /\ Aggregated
    /\ Len(result.count) > TopN
    /\ Len(result.top_skills) = TopN
    /\ Distinct(EmployerLabels) > TopN
    /\ Len(result.top_companies) = TopN
    /\ result.count[1][1] # AllRequirements(doc)[1]
    /\ result.top_companies[1][1] # doc[1].employer
    /\ \E i \in 1..(TopN - 1) : result.top_skills[i][2] = result.top_skills[i + 1][2]

=============================================================================
